---- MODULE Spec2Model ----
(***************************************************************************)
(* Model of the AI interview screener backend (src/main.py).               *)
(*                                                                         *)
(* A text is a sequence of one-character strings.  The response extractor  *)
(* (_strip_markdown and the parsing part of evaluate_with_groq) is         *)
(* computed on those sequences as the code computes it on Python strings.  *)
(* Two specifications are given:                                           *)
(*   SpecExtract  the extractor as a pure function of the raw model text   *)
(*   Spec         the HTTP handlers evaluate_answer and rank_candidates    *)
(***************************************************************************)
EXTENDS Integers, Sequences, FiniteSets, TLC

VARIABLES
    raw,          \* SpecExtract: raw text returned by the model
    stage,        \* SpecExtract: "raw" | "cleaned" | "done"
    cleaned,      \* SpecExtract: _strip_markdown(raw)
    twice,        \* SpecExtract: _strip_markdown applied to cleaned
    result,       \* SpecExtract: outcome of the extraction
    available,    \* _GROQ_AVAILABLE, fixed at import time
    pc,           \* handler position: "idle" | "rank_loop" | "responded"
    request,      \* the request being handled
    idx,          \* rank_candidates: index of the next candidate of the loop
    evaluated,    \* rank_candidates: evaluated_candidates
    calls,        \* model calls issued for the current request, in order
    evals,        \* what evaluate_with_groq returned or raised, in call order
    response      \* the HTTP response of the current request

vars == <<raw, stage, cleaned, twice, result,
          available, pc, request, idx, evaluated, calls, evals, response>>

extractVars == <<raw, stage, cleaned, twice, result>>
serverVars == <<available, pc, request, idx, evaluated, calls, evals, response>>

(***************************************************************************)
(* Bounds                                                                  *)
(***************************************************************************)
MaxCandidates == 4      \* longest candidate list of a rank request
MaxPad == 301           \* longest run of prose padding in a raw text

(***************************************************************************)
(* Python string primitives                                                *)
(***************************************************************************)
Whitespace == {" ", "\n"}
Digits == <<"0", "1", "2", "3", "4", "5", "6", "7", "8", "9">>
Quote == "\""

\* a local assignment v = x followed by body(v)
With(x, body(_)) == CHOOSE r \in {body(v) : v \in {x}} : TRUE

Min(S) == CHOOSE m \in S : \A n \in S : m <= n
Max(S) == CHOOSE m \in S : \A n \in S : m >= n

\* str.strip()
Strip(t) ==
    LET solid == {i \in 1..Len(t) : t[i] \notin Whitespace}
    IN  IF solid = {} THEN <<>> ELSE SubSeq(t, Min(solid), Max(solid))

\* str.startswith(p)
StartsWith(t, p) == Len(t) >= Len(p) /\ SubSeq(t, 1, Len(p)) = p

\* t[n:]
Drop(t, n) == SubSeq(t, n + 1, Len(t))

\* mutant of Take: the slice bound is dropped
Take_Unbounded(t, n) == t

\* t[:n]
Take(t, n) == SubSeq(t, 1, IF n < Len(t) THEN n ELSE Len(t))

\* p occurs in t at position i (1-based)
OccursAt(t, p, i) == i >= 1 /\ i + Len(p) - 1 <= Len(t) /\ SubSeq(t, i, i + Len(p) - 1) = p

\* p in t
Contains(t, p) == \E i \in 1..(Len(t) + 1) : OccursAt(t, p, i)

\* first position >= i of t that holds no whitespace (Len(t)+1 when none)
SkipWs(t, i) ==
    LET solid == {j \in i..Len(t) : t[j] \notin Whitespace}
    IN  IF solid = {} THEN Len(t) + 1 ELSE Min(solid)

(***************************************************************************)
(* _strip_markdown                                                         *)
(***************************************************************************)
\* the backquote character is written "^": a TLA+ string cannot hold it
Backquote == "^"
Fence == <<Backquote, Backquote, Backquote>>
JsonTag == <<"j", "s", "o", "n">>

\* re.search(r"<fence>(?:json)?\s*(.*?)\s*<fence>", text, re.DOTALL) on a text that
\* starts with the fence: the start of group 1 (after the fence, the greedy
\* optional tag and the greedy whitespace run) and the candidates for its
\* end (positions from which whitespace and then a fence follow).
FenceGroupStart(t) ==
    LET afterTag == IF OccursAt(t, JsonTag, 4) THEN 8 ELSE 4
    IN  SkipWs(t, afterTag)

FenceGroupEnds(t, start) ==
    {e \in start..(Len(t) + 1) : OccursAt(t, Fence, SkipWs(t, e))}

\* the fence branch: text = match.group(1).strip() when the pattern matches
StripFence(t) ==
    IF ~StartsWith(t, Fence) THEN t
    ELSE With(FenceGroupStart(t), LAMBDA start :
         With(FenceGroupEnds(t, start), LAMBDA ends :
            IF ends = {} THEN t ELSE Strip(SubSeq(t, start, Min(ends) - 1))))

\* the leading 'json' branch: text = text[4:].strip()
StripJsonTag(t) == IF StartsWith(t, JsonTag) THEN Strip(Drop(t, 4)) ELSE t

_strip_markdown(text) ==
    With(Strip(text), LAMBDA stripped :
    With(StripFence(stripped), LAMBDA fenceless : StripJsonTag(fenceless)))

(***************************************************************************)
(* json.loads, for the grammar the model texts are drawn from: an object   *)
(* whose members are strings or integers, a bare string, a bare integer.   *)
(* A parsed value is a record; a dict keeps its members in source order    *)
(* and a lookup takes the last member of that key, as Python does.         *)
(***************************************************************************)
NoValue == [type |-> "none", n |-> 0, s |-> <<>>, members |-> <<>>]
IntValue(n) == [type |-> "int", n |-> n, s |-> <<>>, members |-> <<>>]
StrValue(s) == [type |-> "str", n |-> 0, s |-> s, members |-> <<>>]
ObjValue(ms) == [type |-> "obj", n |-> 0, s |-> <<>>, members |-> ms]

ParseFail == [ok |-> FALSE, pos |-> 0, val |-> NoValue]
ParseOk(v, p) == [ok |-> TRUE, pos |-> p, val |-> v]

IsDigit(c) == \E d \in 1..10 : Digits[d] = c
DigitVal(c) == (CHOOSE d \in 1..10 : Digits[d] = c) - 1

RECURSIVE DigitsVal(_)
DigitsVal(ds) ==
    IF ds = <<>> THEN 0
    ELSE DigitsVal(SubSeq(ds, 1, Len(ds) - 1)) * 10 + DigitVal(ds[Len(ds)])

\* first position >= i of t that holds no digit (Len(t)+1 when none)
SkipDigits(t, i) ==
    LET other == {j \in i..Len(t) : ~IsDigit(t[j])}
    IN  IF other = {} THEN Len(t) + 1 ELSE Min(other)

\* a JSON string starting at t[i] = Quote: no escapes, no raw newline
ParseString(t, i) ==
    With({j \in (i + 1)..Len(t) : t[j] = Quote}, LAMBDA closing :
        IF closing = {} THEN ParseFail
        ELSE With(Min(closing), LAMBDA j :
                IF \E k \in (i + 1)..(j - 1) : t[k] = "\n"
                THEN ParseFail
                ELSE ParseOk(StrValue(SubSeq(t, i + 1, j - 1)), j + 1)))

\* a JSON integer starting at t[i]: '-'? ('0' | [1-9][0-9]*)
ParseNumber(t, i) ==
    With(IF t[i] = "-" THEN i + 1 ELSE i, LAMBDA first :
    With(SkipDigits(t, first), LAMBDA stop :
        IF stop = first THEN ParseFail
        ELSE With(IF t[first] = "0" THEN first + 1 ELSE stop, LAMBDA last :
             With(DigitsVal(SubSeq(t, first, last - 1)), LAMBDA mag :
                ParseOk(IntValue(IF t[i] = "-" THEN 0 - mag ELSE mag), last)))))

ParseScalar(t, i) ==
    IF i > Len(t) THEN ParseFail
    ELSE IF t[i] = Quote THEN ParseString(t, i)
    ELSE IF t[i] = "-" \/ IsDigit(t[i]) THEN ParseNumber(t, i)
    ELSE ParseFail

\* the members of an object from the key at t[i] up to the closing brace
RECURSIVE ParseMembers(_, _, _)
ParseMembers(t, i, acc) ==
    IF i > Len(t) \/ t[i] # Quote THEN ParseFail
    ELSE With(ParseString(t, i), LAMBDA k :
         IF ~k.ok THEN ParseFail
         ELSE With(SkipWs(t, k.pos), LAMBDA colon :
         IF colon > Len(t) \/ t[colon] # ":" THEN ParseFail
         ELSE With(ParseScalar(t, SkipWs(t, colon + 1)), LAMBDA v :
         IF ~v.ok THEN ParseFail
         ELSE With(SkipWs(t, v.pos), LAMBDA next :
         With(Append(acc, [key |-> k.val.s, val |-> v.val]), LAMBDA ms :
            IF next > Len(t) THEN ParseFail
            ELSE IF t[next] = "," THEN ParseMembers(t, SkipWs(t, next + 1), ms)
            ELSE IF t[next] = "}" THEN ParseOk(ObjValue(ms), next + 1)
            ELSE ParseFail)))))

ParseObject(t, i) ==
    With(SkipWs(t, i + 1), LAMBDA j :
        IF j <= Len(t) /\ t[j] = "}" THEN ParseOk(ObjValue(<<>>), j + 1)
        ELSE ParseMembers(t, j, <<>>))

\* json.loads(t): ok = FALSE stands for json.JSONDecodeError
json_loads(t) ==
    With(SkipWs(t, 1), LAMBDA i :
    With(IF i <= Len(t) /\ t[i] = "{" THEN ParseObject(t, i) ELSE ParseScalar(t, i), LAMBDA v :
        IF v.ok /\ SkipWs(t, v.pos) = Len(t) + 1 THEN v ELSE ParseFail))

\* key in dict, dict[key]
HasKey(obj, key) == \E m \in 1..Len(obj.members) : obj.members[m].key = key
Lookup(obj, key) ==
    obj.members[Max({m \in 1..Len(obj.members) : obj.members[m].key = key})].val

(***************************************************************************)
(* evaluate_with_groq                                                      *)
(***************************************************************************)
ScoreKey == <<"s", "c", "o", "r", "e">>
SummaryKey == <<"s", "u", "m", "m", "a", "r", "y">>
ImprovementKey == <<"i", "m", "p", "r", "o", "v", "e", "m", "e", "n", "t">>

RawExcerptLen == 300      \* cleaned_text[:300]
ParseExcerptLen == 200    \* cleaned_text[:200]
MinScore == 1             \* Field(ge=1)
MaxScore == 5             \* Field(le=5)

\* The outcome of one evaluation: an EvaluationResponse, or the
\* HTTPException(status_code=500) raised instead.  kind names the raise
\* statement, detail is the exception's detail, excerpt the part of
\* detail cut out of cleaned_text.
Success(score, summary, improvement) ==
    [ok |-> TRUE, score |-> score, summary |-> summary, improvement |-> improvement,
     kind |-> "Evaluation", excerpt |-> <<>>, detail |-> <<>>]

Failure(kind, message, excerpt) ==
    [ok |-> FALSE, score |-> 0, summary |-> <<>>, improvement |-> <<>>,
     kind |-> kind, excerpt |-> excerpt, detail |-> <<message>> \o excerpt]

\* str(n) for an integer
RECURSIVE NatText(_)
NatText(n) == IF n < 10 THEN <<Digits[n + 1]>> ELSE Append(NatText(n \div 10), Digits[(n % 10) + 1])
IntText(n) == IF n < 0 THEN <<"-">> \o NatText(0 - n) ELSE NatText(n)

\* str(v) for a string or an integer value
str(v) == IF v.type = "int" THEN IntText(v.n) ELSE v.s

\* int(v): ok = FALSE stands for the ValueError of a non-numeric string
int(v) ==
    IF v.type = "int" THEN [ok |-> TRUE, n |-> v.n]
    ELSE With(Strip(v.s), LAMBDA t :
         With(Len(t) > 0 /\ t[1] \in {"-", "+"}, LAMBDA signed :
         With(IF signed THEN Drop(t, 1) ELSE t, LAMBDA ds :
            IF Len(ds) > 0 /\ \A k \in 1..Len(ds) : IsDigit(ds[k])
            THEN [ok |-> TRUE, n |-> IF signed /\ t[1] = "-" THEN 0 - DigitsVal(ds) ELSE DigitsVal(ds)]
            ELSE [ok |-> FALSE, n |-> 0])))

\* mutant of EvaluationResponse: the ge/le constraints are dropped
EvaluationResponse_Unchecked(score, summary, improvement) == Success(score, summary, improvement)

\* the constructor of the pydantic model: score is validated against ge, le
EvaluationResponse(score, summary, improvement) ==
    IF score >= MinScore /\ score <= MaxScore
    THEN Success(score, summary, improvement)
    ELSE Failure("ScoreRange", "validation error for EvaluationResponse", <<>>)

\* re.search(r'\{[\s\S]*\}', cleaned_text): from the first '{' to the last '}'
BraceSpan(t) ==
    LET opens == {i \in 1..Len(t) : t[i] = "{"}
        closes == {i \in 1..Len(t) : t[i] = "}"}
    IN  IF opens # {} /\ closes # {} /\ Max(closes) > Min(opens)
        THEN [found |-> TRUE, text |-> SubSeq(t, Min(opens), Max(closes))]
        ELSE [found |-> FALSE, text |-> <<>>]

\* the "Parse JSON" block: json.loads, then the brace span as a fallback
ParseJson(cleaned_text) ==
    With(json_loads(cleaned_text), LAMBDA direct :
        IF direct.ok THEN [ok |-> TRUE, val |-> direct.val, error |-> "none"]
        ELSE With(BraceSpan(cleaned_text), LAMBDA span :
             IF ~span.found THEN [ok |-> FALSE, val |-> NoValue, error |-> "CouldNotParse"]
             ELSE With(json_loads(span.text), LAMBDA inner :
                  IF inner.ok THEN [ok |-> TRUE, val |-> inner.val, error |-> "none"]
                  ELSE [ok |-> FALSE, val |-> NoValue, error |-> "FailedToParse"])))

\* "key" not in result: dict membership, substring test on a str,
\* TypeError on an int
KeyMissing(res, key) ==
    IF res.type = "obj" THEN ~HasKey(res, key) ELSE ~Contains(res.s, key)

\* mutant of ValidateFields: only score is required, a missing summary or
\* improvement is filled with the empty string (result.get(key, ""))
ValidateFields_Defaulting(res) ==
    IF res.type = "int"
    THEN Failure("GroqApiError", "Groq API error: argument of type 'int' is not iterable", <<>>)
    ELSE IF KeyMissing(res, ScoreKey)
    THEN Failure("MissingFields", "Missing required fields in response: {result}", <<>>)
    ELSE IF res.type = "str"
    THEN Failure("GroqApiError", "Groq API error: string indices must be integers", <<>>)
    ELSE With(int(Lookup(res, ScoreKey)), LAMBDA score :
            IF ~score.ok
            THEN Failure("ScoreNotInt", "invalid literal for int() with base 10", <<>>)
            ELSE EvaluationResponse(score.n,
                     IF HasKey(res, SummaryKey) THEN str(Lookup(res, SummaryKey)) ELSE <<>>,
                     IF HasKey(res, ImprovementKey) THEN str(Lookup(res, ImprovementKey)) ELSE <<>>))

\* "Validate required fields" and the construction of the response
ValidateFields(res) ==
    IF res.type = "int"
    THEN Failure("GroqApiError", "Groq API error: argument of type 'int' is not iterable", <<>>)
    ELSE IF KeyMissing(res, ScoreKey) \/ KeyMissing(res, SummaryKey) \/ KeyMissing(res, ImprovementKey)
    THEN Failure("MissingFields", "Missing required fields in response: {result}", <<>>)
    ELSE IF res.type = "str"
    THEN Failure("GroqApiError", "Groq API error: string indices must be integers", <<>>)
    ELSE With(int(Lookup(res, ScoreKey)), LAMBDA score :
            IF ~score.ok
            THEN Failure("ScoreNotInt", "invalid literal for int() with base 10", <<>>)
            ELSE EvaluationResponse(score.n, str(Lookup(res, SummaryKey)),
                                    str(Lookup(res, ImprovementKey))))

\* the try block from "Parse JSON" on, given cleaned_text
ParseResponse(cleaned_text) ==
    With(ParseJson(cleaned_text), LAMBDA parsed :
        IF parsed.ok THEN ValidateFields(parsed.val)
        ELSE IF parsed.error = "CouldNotParse"
        THEN Failure("CouldNotParse", "Could not parse JSON from response: ",
                     Take(cleaned_text, ParseExcerptLen))
        ELSE Failure("FailedToParse", "Failed to parse JSON from model. Raw response: ",
                     Take(cleaned_text, RawExcerptLen)))

\* response_text = ....content.strip(); cleaned_text = _strip_markdown(response_text)
CleanResponse(content) == _strip_markdown(Strip(content))

\* the try block after the model call returned content
ExtractEvaluation(content) ==
    With(CleanResponse(content), LAMBDA cleaned_text : ParseResponse(cleaned_text))

\* What the provider does with one call: it raises, or it returns a text.
ApiError == [raised |-> TRUE, text |-> <<>>]
Returned(text) == [raised |-> FALSE, text |-> text]

\* evaluate_with_groq, given what the provider does when it is called
evaluate_with_groq(groq_available, outcome) ==
    IF ~groq_available
    THEN Failure("Unavailable", "Groq SDK not available: ", <<>>)
    ELSE IF outcome.raised
    THEN Failure("GroqApiError", "Groq API error: ", <<>>)
    ELSE ExtractEvaluation(outcome.text)

(***************************************************************************)
(* Raw model texts of SpecExtract: JSON objects written out member by      *)
(* member, prose, and the wrappings a model puts around them.              *)
(***************************************************************************)
StrLit(s) == <<Quote>> \o s \o <<Quote>>
Member(key, lit) == StrLit(key) \o <<":">> \o lit

RECURSIVE JoinMembers(_)
JoinMembers(ms) ==
    IF ms = <<>> THEN <<>>
    ELSE IF Len(ms) = 1 THEN ms[1]
    ELSE ms[1] \o <<",">> \o JoinMembers(Tail(ms))

ObjectText(ms) == <<"{">> \o JoinMembers(ms) \o <<"}">>

Pad(n) == [i \in 1..n |-> "x"]

ScoreInts == (MinScore - 2)..(MaxScore + 1)
ScoreLits ==
    {IntText(n) : n \in ScoreInts} \cup {StrLit(IntText(n)) : n \in ScoreInts}
    \cup {StrLit(<<"x">>)}
Summaries ==
    { <<"G", "o", "o", "d">>,
      <<"s", "e", "e", " ">> \o Fence \o <<"c">> \o Fence,
      <<"a", "}", " ", "{", "b">> }
Improvements == { <<"A", "d", "d">>, <<"t", "r", "y", " ">> \o Fence }

\* every subset of the three keys, in the order score, summary, improvement
ObjectTexts ==
    { ObjectText(SelectSeq(<< IF hs THEN Member(ScoreKey, sc) ELSE <<>>,
                              IF hm THEN Member(SummaryKey, StrLit(su)) ELSE <<>>,
                              IF hi THEN Member(ImprovementKey, StrLit(im)) ELSE <<>> >>,
                           LAMBDA m : m # <<>>)) :
        hs \in BOOLEAN, hm \in BOOLEAN, hi \in BOOLEAN,
        sc \in ScoreLits, su \in Summaries, im \in Improvements }

PadLens == {0, 1, ParseExcerptLen - 1, ParseExcerptLen + 1, RawExcerptLen, MaxPad}
ProseTexts ==
    {Pad(n) : n \in PadLens}
    \cup {<<"{">> \o Pad(n) \o <<"}">> : n \in PadLens}
    \cup {<<"}">> \o Pad(n) \o <<"{">> : n \in PadLens}
    \cup {JsonTag \o Pad(n) : n \in PadLens}
    \cup {<<"5">>, <<"-", "1">>, StrLit(<<"G", "o", "o", "d">>),
          StrLit(ScoreKey \o <<" ">> \o SummaryKey \o <<" ">> \o ImprovementKey)}

Wrappings ==
    { [pre |-> <<>>, post |-> <<>>],
      [pre |-> Fence \o <<"\n">>, post |-> <<"\n">> \o Fence],
      [pre |-> Fence \o JsonTag \o <<"\n">>, post |-> <<"\n">> \o Fence],
      [pre |-> Fence \o JsonTag \o <<"\n">>, post |-> <<"\n">> \o Fence \o <<" ", "o", "k">>],
      [pre |-> Fence, post |-> <<>>],
      [pre |-> JsonTag \o <<" ">>, post |-> <<>>],
      [pre |-> JsonTag \o JsonTag, post |-> <<"\n">>],
      [pre |-> JsonTag \o Fence, post |-> Fence],
      [pre |-> <<" ", "O", "K", ":", " ">>, post |-> <<" ", "o", "k">>] }

RawTexts == {w.pre \o b \o w.post : w \in Wrappings, b \in ObjectTexts \cup ProseTexts}

(***************************************************************************)
(* SpecExtract: the extractor applied to one raw text                      *)
(***************************************************************************)
NoResult == Failure("none", "", <<>>)
NoRequest == [endpoint |-> "none", candidate_says |-> <<>>, candidates |-> <<>>]
NoResponse == [status |-> 0, evaluation |-> NoResult, ranked_candidates |-> <<>>]

InitExtract ==
    /\ raw \in RawTexts
    /\ stage = "raw"
    /\ cleaned = <<>>
    /\ twice = <<>>
    /\ result = NoResult
    /\ available = TRUE
    /\ pc = "idle"
    /\ request = NoRequest
    /\ idx = 0
    /\ evaluated = <<>>
    /\ calls = <<>>
    /\ evals = <<>>
    /\ response = NoResponse

\* cleaned_text = _strip_markdown(response_text)
Clean ==
    /\ stage = "raw"
    /\ cleaned' = CleanResponse(raw)
    /\ stage' = "cleaned"
    /\ UNCHANGED <<raw, twice, result, serverVars>>

\* the rest of the try block: parse, validate, construct
Extract ==
    /\ stage = "cleaned"
    /\ result' = ParseResponse(cleaned)
    /\ stage' = "done"
    /\ UNCHANGED <<raw, cleaned, twice, serverVars>>

\* a second pass of _strip_markdown over the cleaned text
CleanAgain ==
    /\ stage = "cleaned"
    /\ twice' = _strip_markdown(cleaned)
    /\ stage' = "twice"
    /\ UNCHANGED <<raw, cleaned, result, serverVars>>

NextExtract == Clean \/ Extract \/ CleanAgain

SpecExtract == InitExtract /\ [][NextExtract]_vars

(***************************************************************************)
(* Spec: the handlers evaluate_answer and rank_candidates                  *)
(***************************************************************************)
\* request payloads
Answers == { <<>>, <<" ">>, <<"\n", " ">>, <<"R", "e", "a", "c", "t">>, <<" ", "o", "k">> }
CandidatePool ==
    { [candidate_id |-> "C001", answer |-> <<"R", "e", "a", "c", "t">>],
      [candidate_id |-> "C002", answer |-> <<>>] }

RECURSIVE SeqsUpTo(_, _)
SeqsUpTo(S, n) ==
    IF n = 0 THEN {<<>>}
    ELSE LET shorter == SeqsUpTo(S, n - 1)
         IN  shorter \cup {Append(q, x) : q \in {r \in shorter : Len(r) = n - 1}, x \in S}

CandidateLists == SeqsUpTo(CandidatePool, MaxCandidates)

\* what the provider may do on one call
ScoredObject(lit) ==
    ObjectText(<< Member(ScoreKey, lit), Member(SummaryKey, StrLit(<<"G", "o", "o", "d">>)),
                  Member(ImprovementKey, StrLit(<<"A", "d", "d">>)) >>)
\* ... for a candidate of a batch: it raises, it scores 1, 2 or 5, it
\* scores out of range, it answers in prose
BatchOutcomes ==
    { ApiError,
      Returned(ScoredObject(IntText(1))),
      Returned(ScoredObject(IntText(2))),
      Returned(Fence \o JsonTag \o <<"\n">> \o ScoredObject(StrLit(IntText(5))) \o <<"\n">> \o Fence),
      Returned(ScoredObject(IntText(0))),
      Returned(<<"N", "o", " ", "J", "S", "O", "N">>) }

\* the scores outside MinScore..MaxScore the provider is given to return
OutOfRange == {MinScore - 2, MinScore - 1, MaxScore + 1}

\* ... for a single answer: the same, and objects with a field missing,
\* other scores out of range, a score that is no number
ModelOutcomes ==
    BatchOutcomes
    \cup {Returned(ScoredObject(IntText(n))) : n \in OutOfRange}
    \cup { Returned(ObjectText(<< Member(ScoreKey, IntText(4)),
                                  Member(SummaryKey, StrLit(<<"G", "o", "o", "d">>)) >>)),
           Returned(ScoredObject(StrLit(<<"x">>))) }

\* evaluate_with_groq tabulated over what the provider may do
Evaluations == [a \in BOOLEAN |-> [o \in ModelOutcomes |-> evaluate_with_groq(a, o)]]

Init ==
    /\ raw = <<>>
    /\ stage = "off"
    /\ cleaned = <<>>
    /\ twice = <<>>
    /\ result = NoResult
    /\ available \in BOOLEAN
    /\ pc = "idle"
    /\ request = NoRequest
    /\ idx = 0
    /\ evaluated = <<>>
    /\ calls = <<>>
    /\ evals = <<>>
    /\ response = NoResponse

\* raise HTTPException(status_code=..., detail=...)
ErrorResponse(status, failure) ==
    [status |-> status, evaluation |-> failure, ranked_candidates |-> <<>>]

\* the log of model calls after evaluate_with_groq ran for candidate i:
\* the provider is called only past the availability check
CallLog(log, i, outcome) ==
    IF available THEN Append(log, [candidate |-> i, outcome |-> outcome]) ELSE log

\* mutant of IsBlank: the answer is compared without strip()
IsBlank_NoStrip(candidate_says) == candidate_says = <<>>

\* not request.candidate_says.strip()
IsBlank(candidate_says) == Strip(candidate_says) = <<>>

\* POST /evaluate-answer
evaluate_answer(candidate_says, outcome) ==
    /\ pc = "idle"
    /\ request' = [endpoint |-> "evaluate-answer", candidate_says |-> candidate_says,
                   candidates |-> <<>>]
    /\ IF IsBlank(candidate_says)
       THEN /\ response' = ErrorResponse(400, Failure("ClientError", "Candidate answer cannot be empty", <<>>))
            /\ UNCHANGED <<calls, evals>>
       ELSE /\ \E evaluation \in {Evaluations[available][outcome]} :
                  /\ response' = IF evaluation.ok
                                 THEN [status |-> 200, evaluation |-> evaluation, ranked_candidates |-> <<>>]
                                 ELSE ErrorResponse(500, evaluation)
                  /\ evals' = Append(evals, evaluation)
            /\ calls' = CallLog(calls, 0, outcome)
    /\ pc' = "responded"
    /\ UNCHANGED <<extractVars, available, idx, evaluated>>

\* POST /rank-candidates up to the loop
rank_candidates(candidates) ==
    /\ pc = "idle"
    /\ request' = [endpoint |-> "rank-candidates", candidate_says |-> <<>>,
                   candidates |-> candidates]
    /\ IF candidates = <<>>
       THEN /\ response' = ErrorResponse(400, Failure("ClientError", "Candidates list cannot be empty", <<>>))
            /\ pc' = "responded"
            /\ UNCHANGED <<idx, evaluated>>
       ELSE /\ evaluated' = <<>>
            /\ idx' = 1
            /\ pc' = "rank_loop"
            /\ UNCHANGED response
    /\ UNCHANGED <<extractVars, available, calls, evals>>

\* str(e) of the HTTPException caught in the loop
ExceptionText(e) == <<"500: ">> \o e.detail

RetryText == <<"Please retry evaluation">>

\* the dict appended in the try branch
EvaluatedEntry(candidate, evaluation) ==
    [candidate_id |-> candidate.candidate_id, answer |-> candidate.answer,
     score |-> evaluation.score, summary |-> evaluation.summary,
     improvement |-> evaluation.improvement]

\* mutant of PlaceholderEntry: the summary drops str(e)
PlaceholderEntry_NoDetail(candidate, e) ==
    [candidate_id |-> candidate.candidate_id, answer |-> candidate.answer,
     score |-> 0, summary |-> <<"Evaluation failed">>, improvement |-> RetryText]

\* the dict appended in the except branch
PlaceholderEntry(candidate, e) ==
    [candidate_id |-> candidate.candidate_id, answer |-> candidate.answer,
     score |-> 0, summary |-> <<"Evaluation failed: ">> \o ExceptionText(e),
     improvement |-> RetryText]

\* the body of "for candidate in request.candidates"
EvaluateOne(candidate, evaluation) ==
    IF evaluation.ok THEN EvaluatedEntry(candidate, evaluation)
    ELSE PlaceholderEntry(candidate, evaluation)

\* mutant of RankLoop: a failed evaluation is tried a second time
RankLoop_Retry(outcome) ==
    /\ pc = "rank_loop"
    /\ idx <= Len(request.candidates)
    /\ \E evaluation \in {Evaluations[available][outcome]} :
          /\ evaluated' = Append(evaluated, EvaluateOne(request.candidates[idx], evaluation))
          /\ evals' = Append(evals, evaluation)
          /\ calls' = IF evaluation.ok
                      THEN CallLog(calls, idx, outcome)
                      ELSE CallLog(CallLog(calls, idx, outcome), idx, outcome)
    /\ idx' = idx + 1
    /\ UNCHANGED <<extractVars, available, pc, request, response>>

\* one iteration of the loop
RankLoop(outcome) ==
    /\ pc = "rank_loop"
    /\ idx <= Len(request.candidates)
    /\ \E evaluation \in {Evaluations[available][outcome]} :
          /\ evaluated' = Append(evaluated, EvaluateOne(request.candidates[idx], evaluation))
          /\ evals' = Append(evals, evaluation)
    /\ calls' = CallLog(calls, idx, outcome)
    /\ idx' = idx + 1
    /\ UNCHANGED <<extractVars, available, pc, request, response>>

\* mutant of InsertByScore: an entry goes before the entries of equal score
RECURSIVE InsertByScore_Unstable(_, _)
InsertByScore_Unstable(sorted, x) ==
    IF sorted = <<>> THEN <<x>>
    ELSE IF sorted[1].score > x.score THEN <<sorted[1]>> \o InsertByScore_Unstable(Tail(sorted), x)
    ELSE <<x>> \o sorted

\* list.sort(key=lambda x: x["score"], reverse=True): stable, descending
RECURSIVE InsertByScore(_, _)
InsertByScore(sorted, x) ==
    IF sorted = <<>> THEN <<x>>
    ELSE IF sorted[1].score >= x.score THEN <<sorted[1]>> \o InsertByScore(Tail(sorted), x)
    ELSE <<x>> \o sorted

RECURSIVE SortByScore(_)
SortByScore(list) ==
    IF list = <<>> THEN <<>>
    ELSE InsertByScore(SortByScore(SubSeq(list, 1, Len(list) - 1)), list[Len(list)])

\* mutant of RankOf: enumerate() without the start argument
RankOf_ZeroBased(position) == position - 1

\* for idx, candidate in enumerate(evaluated_candidates, 1): RankedCandidate(..., rank=idx)
RankOf(position) == position

AddRanking(sorted) ==
    [i \in 1..Len(sorted) |->
        [candidate_id |-> sorted[i].candidate_id, answer |-> sorted[i].answer,
         score |-> sorted[i].score, summary |-> sorted[i].summary,
         improvement |-> sorted[i].improvement, rank |-> RankOf(i)]]

\* after the loop: sort, rank, respond
RankRespond ==
    /\ pc = "rank_loop"
    /\ idx > Len(request.candidates)
    /\ evaluated' = SortByScore(evaluated)
    /\ response' = [status |-> 200, evaluation |-> NoResult,
                    ranked_candidates |-> AddRanking(SortByScore(evaluated))]
    /\ pc' = "responded"
    /\ UNCHANGED <<extractVars, available, request, idx, calls, evals>>

Next ==
    \/ \E says \in Answers, outcome \in ModelOutcomes : evaluate_answer(says, outcome)
    \/ \E candidates \in CandidateLists : rank_candidates(candidates)
    \/ \E outcome \in BatchOutcomes : RankLoop(outcome)
    \/ RankRespond

Spec == Init /\ [][Next]_vars

(***************************************************************************)
(* Properties of the handlers (Spec)                                       *)
(***************************************************************************)
RankRequest == request.endpoint = "rank-candidates"
Candidates == request.candidates
RankDone == RankRequest /\ pc = "responded" /\ response.status = 200

\* the evaluation candidate i of the current rank request received
EvaluationOf(i) == evals[i]

\* what the claims expect the loop to record for candidate i
ExpectedEntry(i) ==
    LET c == Candidates[i]
        e == EvaluationOf(i)
    IN  IF e.ok
        THEN [candidate_id |-> c.candidate_id, answer |-> c.answer, score |-> e.score,
              summary |-> e.summary, improvement |-> e.improvement]
        ELSE [candidate_id |-> c.candidate_id, answer |-> c.answer, score |-> 0,
              summary |-> <<"Evaluation failed: ">> \o ExceptionText(e),
              improvement |-> <<"Please retry evaluation">>]

Unranked(r) ==
    [candidate_id |-> r.candidate_id, answer |-> r.answer, score |-> r.score,
     summary |-> r.summary, improvement |-> r.improvement]

Ranked == response.ranked_candidates

\* the expected entries in input order, and the output without its ranks
ExpectedEntries == SelectSeq([i \in 1..Len(Candidates) |-> ExpectedEntry(i)], LAMBDA e : TRUE)
UnrankedEntries == SelectSeq([p \in 1..Len(Ranked) |-> Unranked(Ranked[p])], LAMBDA e : TRUE)

\* number of positions of seq q that satisfy P
Count(q, P(_)) == Cardinality({i \in 1..Len(q) : P(q[i])})

\* C1: in rank_candidates over a non-empty list a failed evaluation does not
\* abort the batch: during the loop the entry recorded for each candidate is
\* the placeholder (score 0, summary holding the failure detail, the fixed
\* retry text, the candidate's id and answer) when its evaluation failed
\* and its own evaluation otherwise, whatever happened to the others; the
\* request is answered with status 200 and every such entry is in the output.
C1_FailureIsolated ==
    /\ (RankRequest /\ pc = "rank_loop") =>
          /\ Len(evaluated) = idx - 1
          /\ \A i \in 1..Len(evaluated) :
                /\ evaluated[i] = ExpectedEntry(i)
                /\ ~EvaluationOf(i).ok =>
                      /\ evaluated[i].score = 0
                      /\ Contains(evaluated[i].summary, EvaluationOf(i).detail)
                      /\ evaluated[i].improvement = <<"Please retry evaluation">>
                      /\ evaluated[i].candidate_id = Candidates[i].candidate_id
                      /\ evaluated[i].answer = Candidates[i].answer
    /\ (RankRequest /\ pc = "responded" /\ Candidates # <<>>) =>
          /\ response.status = 200
          /\ With(ExpectedEntries, LAMBDA expected :
             With(UnrankedEntries, LAMBDA ranked :
                \A i \in 1..Len(expected) :
                    Count(ranked, LAMBDA r : r = expected[i])
                       = Count(expected, LAMBDA e : e = expected[i])))

\* a batch of three answered although the second evaluation failed
C1_Witness ==
    /\ RankDone /\ available /\ Len(Candidates) = 3
    /\ EvaluationOf(1).ok /\ ~EvaluationOf(2).ok /\ EvaluationOf(3).ok
    /\ \E p \in 1..3 : Ranked[p].score = 0 /\ Ranked[p].candidate_id = Candidates[2].candidate_id

\* C2: rank_candidates answers N >= 1 candidates with exactly N entries, a
\* permutation of the input by (candidate_id, answer), and the entry at
\* position i has rank i, ties included.
C2_RanksArePositions ==
    RankDone =>
        /\ Len(Ranked) = Len(Candidates)
        /\ \A c \in CandidatePool :
              Count(Ranked, LAMBDA r : r.candidate_id = c.candidate_id /\ r.answer = c.answer)
                 = Count(Candidates, LAMBDA x : x = c)
        /\ \A i \in 1..Len(Ranked) : Ranked[i].rank = i

\* four candidates, two of them tied, one failed
C2_Witness ==
    /\ RankDone /\ available /\ Len(Candidates) = 4
    /\ \E i \in 1..4 : ~EvaluationOf(i).ok
    /\ \E p \in 1..3 : Ranked[p].score = Ranked[p + 1].score /\ Ranked[p].score > 0
    /\ Candidates[1] # Candidates[2]

\* the entries of q, in order, restricted to score s
WithScore(q, s) == SelectSeq(q, LAMBDA e : e.score = s)

\* C3: the output of rank_candidates is ordered by score descending and
\* entries of equal score (placeholders included) keep their input order.
C3_StableDescending ==
    RankDone =>
        /\ \A p \in 1..(Len(Ranked) - 1) : Ranked[p].score >= Ranked[p + 1].score
        /\ With(ExpectedEntries, LAMBDA expected :
           With(UnrankedEntries, LAMBDA ranked :
              \A s \in 0..MaxScore : WithScore(ranked, s) = WithScore(expected, s)))

\* the scores 2, 5, 5, 1 in input order, the two 5s being different candidates
C3_Witness ==
    /\ RankDone /\ available /\ Len(Candidates) = 4
    /\ [i \in 1..4 |-> EvaluationOf(i).score] = <<2, 5, 5, 1>>
    /\ Candidates[2] # Candidates[3]
    /\ Unranked(Ranked[1]) = ExpectedEntry(2) /\ Unranked(Ranked[2]) = ExpectedEntry(3)
    /\ Unranked(Ranked[3]) = ExpectedEntry(1) /\ Unranked(Ranked[4]) = ExpectedEntry(4)

\* C4: a client input error is answered 400 before any model call: an empty
\* or whitespace-only candidate_says, and an empty candidates list, issue no
\* model call and evaluate nothing.
C4_RejectedBeforeCall ==
    pc = "responded" =>
        /\ (request.endpoint = "evaluate-answer" /\ Strip(request.candidate_says) = <<>>) =>
              response.status = 400 /\ calls = <<>>
        /\ (RankRequest /\ Candidates = <<>>) =>
              response.status = 400 /\ calls = <<>> /\ evaluated = <<>>
        /\ response.status = 400 => calls = <<>> /\ evaluated = <<>>

\* a whitespace-only answer rejected while the provider is available
C4_Witness ==
    /\ pc = "responded" /\ available /\ request.endpoint = "evaluate-answer"
    /\ request.candidate_says = <<"\n", " ">> /\ response.status = 400 /\ calls = <<>>

\* C5: every EvaluationResponse has a score in 1..5, a response whose score
\* coerces outside 1..5 is a failure, so every score rank_candidates records
\* is in 0..5 and 0 only on the placeholder of a failed evaluation.
C5_ScoreRange ==
    /\ (request.endpoint = "evaluate-answer" /\ response.status = 200) =>
          response.evaluation.score \in MinScore..MaxScore
    /\ (request.endpoint = "evaluate-answer" /\ calls # <<>>) =>
          \A n \in OutOfRange :
              calls[1].outcome = Returned(ScoredObject(IntText(n))) =>
                  response.status = 500 /\ ~response.evaluation.ok
    /\ (RankRequest /\ pc = "rank_loop") =>
          \A i \in 1..Len(evaluated) :
              /\ evaluated[i].score \in 0..MaxScore
              /\ evaluated[i].score = 0 <=> ~EvaluationOf(i).ok
              /\ evaluated[i].score = 0 => evaluated[i].improvement = RetryText
    /\ RankDone =>
          /\ \A p \in 1..Len(Ranked) :
                /\ Ranked[p].score \in 0..MaxScore
                /\ Ranked[p].score = 0 => Ranked[p].improvement = RetryText
          /\ Count(Ranked, LAMBDA r : r.score = 0)
                = Cardinality({i \in 1..Len(Candidates) : ~EvaluationOf(i).ok})

\* the model answered a candidate with score 0 and the entry is a placeholder
C5_Witness ==
    /\ RankDone /\ available /\ Len(Candidates) = 2
    /\ calls[1].outcome = Returned(ScoredObject(IntText(0)))
    /\ EvaluationOf(2).ok
    /\ Ranked[2].score = 0 /\ Ranked[2].improvement = RetryText /\ Ranked[1].score >= MinScore

\* C10: no retries: with the provider available a rank request calls the
\* model exactly once per candidate, in input order, also after a failure,
\* and a single evaluate_answer request calls it at most once.
C10_OneCallPerCandidate ==
    /\ (RankRequest /\ available /\ pc = "rank_loop") =>
          /\ Len(calls) = idx - 1
          /\ \A k \in 1..Len(calls) : calls[k].candidate = k
    /\ (RankDone /\ available) =>
          /\ Len(calls) = Len(Candidates)
          /\ \A k \in 1..Len(calls) : calls[k].candidate = k
    /\ request.endpoint = "evaluate-answer" => Len(calls) <= 1

\* the first of three calls raised, the second returned unusable text, and
\* the third candidate was still evaluated
C10_Witness ==
    /\ RankDone /\ available /\ Len(Candidates) = 3 /\ Len(calls) = 3
    /\ calls[1].outcome = ApiError
    /\ ~calls[2].outcome.raised /\ ~EvaluationOf(2).ok
    /\ EvaluationOf(3).ok

(***************************************************************************)
(* Properties of the extractor (SpecExtract)                               *)
(***************************************************************************)
RequiredKeys == {ScoreKey, SummaryKey, ImprovementKey}

\* C6: when the response parses to an object that lacks one of score,
\* summary, improvement, the extractor fails with the missing-fields
\* failure and returns no evaluation, whichever keys are missing.
C6_MissingFieldRejected ==
    stage = "done" =>
        LET parsed == ParseJson(cleaned)
        IN  (parsed.ok /\ parsed.val.type = "obj"
                /\ \E key \in RequiredKeys : ~HasKey(parsed.val, key))
            => (~result.ok /\ result.kind = "MissingFields")

\* a fenced object with score and summary but no improvement
C6_Witness ==
    /\ stage = "done"
    /\ raw = Fence \o <<"\n">>
             \o ObjectText(<< Member(ScoreKey, IntText(4)),
                              Member(SummaryKey, StrLit(<<"G", "o", "o", "d">>)) >>)
             \o <<"\n">> \o Fence
    /\ ParseJson(cleaned).ok
    /\ result.kind = "MissingFields"

\* C7: when the cleaned text neither parses as JSON nor holds a parseable
\* span from its first '{' to its last '}', the extractor ends in a parse
\* failure whose excerpt is a prefix of the cleaned text of at most 300
\* characters, with or without a brace span.
C7_ParseFailureExcerpt ==
    stage = "done" =>
        LET direct == json_loads(cleaned)
            span == BraceSpan(cleaned)
        IN  (~direct.ok /\ ~(span.found /\ json_loads(span.text).ok))
            => /\ ~result.ok
               /\ result.kind = (IF span.found THEN "FailedToParse" ELSE "CouldNotParse")
               /\ Len(result.excerpt) <= 300
               /\ result.excerpt = SubSeq(cleaned, 1, Len(result.excerpt))

\* a cleaned text longer than 300 characters with an unparseable brace span
C7_Witness ==
    /\ stage = "done"
    /\ Len(cleaned) > 300
    /\ BraceSpan(cleaned).found
    /\ result.kind = "FailedToParse"
    /\ Len(result.excerpt) = 300

\* the wrappings C8 speaks of: bare, fenced, fenced with the json tag,
\* a bare leading json token
WellFormedWrappings ==
    { [pre |-> <<>>, post |-> <<>>],
      [pre |-> Fence \o <<"\n">>, post |-> <<"\n">> \o Fence],
      [pre |-> Fence \o JsonTag \o <<"\n">>, post |-> <<"\n">> \o Fence],
      [pre |-> JsonTag \o <<" ">>, post |-> <<>>] }

FullObject(lit, su, im) ==
    ObjectText(<< Member(ScoreKey, lit), Member(SummaryKey, StrLit(su)),
                  Member(ImprovementKey, StrLit(im)) >>)

\* C8: a well-formed object with a score in 1..5 (an integer or a numeric
\* string) and non-empty summary and improvement, bare, fenced or behind a
\* leading json token, is extracted to exactly that score, summary and
\* improvement.
C8_ExactRecovery ==
    stage = "done" =>
        \A w \in WellFormedWrappings, n \in MinScore..MaxScore,
           su \in Summaries, im \in Improvements :
            \A lit \in {IntText(n), StrLit(IntText(n))} :
                raw = w.pre \o FullObject(lit, su, im) \o w.post
                    => result = Success(n, su, im)

\* C9: _strip_markdown is idempotent: a second pass leaves the cleaned
\* text unchanged.
C9_Idempotent == stage = "twice" => twice = cleaned

====
